---- MODULE Spec2Model ----
(***************************************************************************)
(* Model of scripts/leaderboard.py: class Leaderboard.                     *)
(*                                                                         *)
(* One invocation of Leaderboard.submit(): the main process either runs    *)
(* one submit_bundle synchronously or hands one submit_bundle per          *)
(* leaderboard dataset to a multiprocessing Pool.  Every submit_bundle is  *)
(* a pipeline: submit bundle_size jobs (bsub), poll the scheduler (bjobs)  *)
(* until no tracked handle is listed, then average the metrics of the run  *)
(* family in the tracking service (mlflow) and publish '<run_name>_av'.    *)
(*                                                                         *)
(* Text (command output, run names, metric keys) is a sequence of          *)
(* one-character strings, so that split and slicing are computed as the    *)
(* code computes them.                                                     *)
(***************************************************************************)
EXTENDS Integers, Sequences, FiniteSets, TLC

\* ------------------------------------------------------------------ bounds
\* Largest --bundle_size tried when one dataset is run synchronously.
MaxBundle == 2

\* The number of runs an experiment holds before the invocation, at most,
\* where the aggregation is checked on its own.
MaxRuns == 3

\* ------------------------------------------------------- program constants
\* __init__'s default, bundle_size=1: the bundle size multi-dataset
\* ('leaderboard') mode is run with, next to the empty bundle.
DefaultBundleSize == 1

\* ------------------------------------------------------------------- text
RECURSIVE SplitFrom(_, _, _, _)
\* The tokens of s from position i on; cur is the token read so far.
SplitFrom(s, sep, i, cur) ==
    IF i > Len(s) THEN <<cur>>
    ELSE IF s[i] = sep THEN <<cur>> \o SplitFrom(s, sep, i + 1, <<>>)
    ELSE SplitFrom(s, sep, i + 1, Append(cur, s[i]))

\* Python s.split(sep) for a one-character sep: empty tokens are kept.
Split(s, sep) == SplitFrom(s, sep, 1, <<>>)

RECURSIVE Join(_, _)
\* Python sep.join(tokens).
Join(tokens, sep) ==
    IF Len(tokens) = 0 THEN <<>>
    ELSE IF Len(tokens) = 1 THEN tokens[1]
    ELSE tokens[1] \o <<sep>> \o Join(Tail(tokens), sep)

\* Python t[1:-1].
Trim(t) == IF Len(t) <= 2 THEN <<>> ELSE SubSeq(t, 2, Len(t) - 1)

\* Python t[:-2].
DropLastTwo(t) == IF Len(t) <= 2 THEN <<>> ELSE SubSeq(t, 1, Len(t) - 2)

RECURSIVE Replace(_, _, _)
\* Python s.replace(old, new) for one-character old and new.
Replace(s, old, new) ==
    IF Len(s) = 0 THEN <<>>
    ELSE <<IF Head(s) = old THEN new ELSE Head(s)>> \o Replace(Tail(s), old, new)

\* Python `sub in s`.
Contains(s, sub) ==
    \E i \in 1..(Len(s) - Len(sub) + 1) : SubSeq(s, i, i + Len(sub) - 1) = sub

RECURSIVE Escape(_)
\* repr of the bytes' content: a newline is written as backslash, n.
Escape(s) ==
    IF Len(s) = 0 THEN <<>>
    ELSE (IF Head(s) = "\n" THEN <<"\\", "n">> ELSE <<Head(s)>>) \o Escape(Tail(s))

\* Python str(outs) of a bytes object (outputs here hold no quote character).
StrOfBytes(outs) == <<"b", "'">> \o Escape(outs) \o <<"'">>

Digit(n) == <<"0", "1", "2", "3", "4", "5", "6", "7", "8", "9">>[n + 1]

\* Python f'{n}' of a non-negative integer below 100.
IntStr(n) == IF n < 10 THEN <<Digit(n)>> ELSE <<Digit(n \div 10), Digit(n % 10)>>

\* ---------------------------------------------------------- configuration
\* self.leader_boards.
leader_boards == <<"kitti_4/6", "discoman_v10", "tum">>

\* The values of --dataset_type tried: the sentinel, the five names
\* get_lsf_command knows, and one it does not know.
DatasetTypes ==
    {"leaderboard", "kitti_4/6", "discoman_v10", "tum", "discoman_debug",
     "tum_debug", "euroc"}

\* The datasets a pipeline can be run for.
Datasets == DatasetTypes \ {"leaderboard"}

\* The dataset name, character by character.
Chars(d) ==
    CASE d = "kitti_4/6" -> <<"k", "i", "t", "t", "i", "_", "4", "/", "6">>
      [] d = "discoman_v10" ->
            <<"d", "i", "s", "c", "o", "m", "a", "n", "_", "v", "1", "0">>
      [] d = "tum" -> <<"t", "u", "m">>
      [] d = "discoman_debug" ->
            <<"d", "i", "s", "c", "o", "m", "a", "n", "_", "d", "e", "b", "u", "g">>
      [] d = "tum_debug" -> <<"t", "u", "m", "_", "d", "e", "b", "u", "g">>
      [] OTHER -> <<"e", "u", "r", "o", "c">>

\* The values of --run_name tried.
RunNames == {<<"e", "x", "p", "1">>, <<"m", "y", "_", "r", "u", "n">>}

\* Mutant of DatasetRoot: the final else falls back to a path instead of
\* raising.
DatasetRoot_Fallback(d) ==
    IF d = "discoman_v10" THEN "DISCOMAN_V10_PATH"
    ELSE IF d = "discoman_debug" THEN "DISCOMAN_V10_PATH"
    ELSE IF d = "kitti_4/6" THEN "KITTI_PATH"
    ELSE "TUM_PATH"

\* get_lsf_command's if-chain: the env path of a dataset, "raise" for the
\* final else branch.
DatasetRoot(d) ==
    IF d = "discoman_v10" THEN "DISCOMAN_V10_PATH"
    ELSE IF d = "discoman_debug" THEN "DISCOMAN_V10_PATH"
    ELSE IF d = "kitti_4/6" THEN "KITTI_PATH"
    ELSE IF d = "tum" THEN "TUM_PATH"
    ELSE IF d = "tum_debug" THEN "TUM_PATH"
    ELSE "raise"

\* get_lsf_command: the bsub command line (its interpolated fields), or the
\* RuntimeError of the else branch.
get_lsf_command(d, job_run_name) ==
    IF DatasetRoot(d) = "raise"
    THEN [raised |-> "RuntimeError"]
    ELSE [raised |-> "none", dataset_root |-> DatasetRoot(d),
          dataset_type |-> d, run_name |-> job_run_name]

\* submit_job line 75: self.run_name + f'_b_{bundle_id}'.
JobRunName(rn, bundle_id) == rn \o <<"_", "b", "_">> \o IntStr(bundle_id)

\* -------------------------------------------------------------- scheduler
\* Position of a dataset in the scheduler's naming of jobs.
DatasetNo(d) ==
    CASE d = "kitti_4/6" -> 1 [] d = "discoman_v10" -> 2 [] d = "tum" -> 3
      [] d = "discoman_debug" -> 4 [] d = "tum_debug" -> 5 [] OTHER -> 6

\* The identifier the scheduler gives to the job of bundle index bundle_id of
\* dataset d.  The scheduler gives every submission its own identifier; the
\* program only compares identifiers, so which one it is does not matter.
JobId(d, bundle_id) == <<Digit(DatasetNo(d))>> \o IntStr(bundle_id)

\* bsub's stdout when it has queued the job: 'Job <id> is submitted\n'.
AckOut(id) ==
    <<"J", "o", "b", " ", "<">> \o id \o
    <<">", " ", "i", "s", " ", "s", "u", "b", "m", "i", "t", "t", "e", "d", "\n">>

\* bsub's stdout when it refused and wrote its complaint to stderr only.
EmptyOut == <<>>

\* bsub's stdout when a submission hook refused: 'Request aborted\n'.
AbortedOut ==
    <<"R", "e", "q", "u", "e", "s", "t", " ", "a", "b", "o", "r", "t", "e", "d", "\n">>

\* What one bsub call can do: kind, stdout, and whether the job is queued.
\* A call that does not answer within the timeout may or may not have
\* queued the job.
BsubOutcomes(id) ==
    { [kind |-> "ack", outs |-> AckOut(id), queued |-> TRUE],
      [kind |-> "empty", outs |-> EmptyOut, queued |-> FALSE],
      [kind |-> "aborted", outs |-> AbortedOut, queued |-> FALSE],
      [kind |-> "timeout", outs |-> <<>>, queued |-> TRUE],
      [kind |-> "timeout", outs |-> <<>>, queued |-> FALSE] }

\* The stdout layout the submission contract promises: the second
\* space-delimited token is the identifier between a pair of marker
\* characters, '<id>'.
WellFormed(outs) ==
    LET t == Split(outs, " ")
    IN  /\ Len(t) >= 2
        /\ Len(t[2]) >= 3
        /\ t[2][1] = "<"
        /\ t[2][Len(t[2])] = ">"

\* Mutant of ParseJobId: token [0] taken for token [1].
ParseJobId_FirstToken(outs) ==
    [raised |-> "none", job_id |-> Trim(Split(StrOfBytes(outs), " ")[1])]

\* submit_job line 81: str(outs).split(' ')[1][1:-1]; IndexError when there
\* is no second token.
ParseJobId(outs) ==
    LET t == Split(StrOfBytes(outs), " ")
    IN  IF Len(t) < 2
        THEN [raised |-> "IndexError"]
        ELSE [raised |-> "none", job_id |-> Trim(t[2])]

\* submit_job lines 78-82 on one bsub outcome: TimeoutExpired from
\* communicate(timeout=4), else the parse.
CommunicateAndParse(o) ==
    IF o.kind = "timeout" THEN [raised |-> "TimeoutExpired"] ELSE ParseJobId(o.outs)

\* submit_job: the command is built first (line 75) and bsub only runs when
\* that returned; `o` is what bsub does if it runs.
submit_job(d, rn, bundle_id, o) ==
    IF get_lsf_command(d, JobRunName(rn, bundle_id)).raised # "none"
    THEN [raised |-> "RuntimeError", ran_bsub |-> FALSE]
    ELSE CommunicateAndParse(o) @@ [ran_bsub |-> TRUE]

RECURSIVE SetToSeq(_)
\* The elements of a finite set, one after the other.
SetToSeq(S) ==
    IF S = {} THEN <<>>
    ELSE LET x == CHOOSE y \in S : TRUE IN <<x>> \o SetToSeq(S \ {x})

\* One line of bjobs for an active job: 'id user RUN\n'.
StatusLine(id) == id \o <<" ", "u", " ", "R", "U", "N", "\n">>

RECURSIVE StatusLines(_)
StatusLines(ids) ==
    IF Len(ids) = 0 THEN <<>> ELSE StatusLine(Head(ids)) \o StatusLines(Tail(ids))

\* bjobs' stdout: nothing when no job is active (the notice goes to stderr),
\* else the header line and one line per active job, each ended by a
\* newline.
StatusOut(act) ==
    IF act = {} THEN <<>>
    ELSE <<"J", "O", "B", "I", "D", " ", "U", "S", "E", "R", " ", "S", "T", "A", "T", "\n">>
         \o StatusLines(SetToSeq(act))

\* Mutant of ParseJobIds: the line after the header is skipped too.
ParseJobIds_SkipFirst(outs) ==
    LET lines == Split(outs, "\n")
    IN  { Split(lines[i + 1], " ")[1] : i \in 2..(Len(lines) - 2) }

\* wait_jobs lines 120-121: the first token of lines 1 .. len-2 of the
\* output split at newlines.
ParseJobIds(outs) ==
    LET lines == Split(outs, "\n")
    IN  { Split(lines[i + 1], " ")[1] : i \in 1..(Len(lines) - 2) }

\* Mutant of StillRunning: union written for intersection.
StillRunning_Union(started, job_ids) == started \cup job_ids

\* wait_jobs line 123.
StillRunning(started, job_ids) == started \cap job_ids

\* Mutant of Finished: the branches of the if at line 126 swapped.
Finished_Swapped(still_running_jobs) == still_running_jobs # {}

\* wait_jobs lines 126-129: the value of `finished` after this round.
Finished(still_running_jobs) == still_running_jobs = {}

\* ------------------------------------------------------- tracking service
K_test_a == <<"t", "e", "s", "t", "_", "a">>
K_test_b == <<"t", "e", "s", "t", "_", "b">>
K_train_loss == <<"t", "r", "a", "i", "n", "_", "l", "o", "s", "s">>

\* The metrics the trainer job of bundle index bundle_id logs.
JobMetrics(bundle_id) ==
    (K_test_a :> (bundle_id + 1)) @@ (K_train_loss :> 5)

\* The run a trainer job logs when it completes: its --run_name as the
\* run_name parameter, the model's name, its metrics.
JobRun(rn, bundle_id) ==
    [origin |-> "job",
     params |-> ("run_name" :> JobRunName(rn, bundle_id)) @@ ("model.name" :> <<"n", "e", "t">>),
     metrics |-> JobMetrics(bundle_id)]

\* A run of somebody else's bundle 'exp_b_0', with no model.name, already in
\* the experiment.
ForeignRun ==
    [origin |-> "pre",
     params |-> ("run_name" :> <<"e", "x", "p", "_", "b", "_", "0">>),
     metrics |-> (K_test_a :> 7) @@ (K_test_b :> 9)]

\* The experiment of a dataset before the invocation: not there (no run was
\* ever logged for the dataset), or holding the foreign run.
PreStores ==
    { [exists |-> FALSE, runs |-> <<>>],
      [exists |-> TRUE, runs |-> <<ForeignRun>>] }

\* Mutant of BaseRunName: only the last token is dropped.
BaseRunName_DropOne(recorded) ==
    LET tokens == Split(recorded, "_")
    IN  Join(SubSeq(tokens, 1, Len(tokens) - 1), "_")

\* load_metrics lines 178-179: the run_name split at '_' without its last
\* two tokens.
BaseRunName(recorded) == Join(DropLastTwo(Split(recorded, "_")), "_")

\* Mutant of InFamily: the base name only has to start with the run_name.
InFamily_Prefix(rn, run) ==
    LET base == BaseRunName(run.params["run_name"])
    IN  Len(rn) <= Len(base) /\ SubSeq(base, 1, Len(rn)) = rn

\* load_metrics line 180.
InFamily(rn, run) == rn = BaseRunName(run.params["run_name"])

RECURSIVE KeptRuns(_, _)
\* The runs load_metrics keeps, in enumeration order.
KeptRuns(rn, runs) ==
    IF Len(runs) = 0 THEN <<>>
    ELSE (IF InFamily(rn, Head(runs)) THEN <<Head(runs)>> ELSE <<>>)
         \o KeptRuns(rn, Tail(runs))

\* load_metrics lines 182-183: the model.name of the first kept run that
\* makes model_name truthy; None when no run is kept.
ModelName(kept) ==
    IF Len(kept) = 0 THEN "None"
    ELSE IF "model.name" \in DOMAIN kept[1].params
         THEN kept[1].params["model.name"]
         ELSE <<"U", "n", "k", "n", "o", "w", "n">>

\* load_metrics: AttributeError when the experiment does not exist
\* (get_experiment_by_name returns None), else (metrics, model_name).
load_metrics(store, rn) ==
    IF ~store.exists
    THEN [raised |-> "AttributeError"]
    ELSE LET kept == KeptRuns(rn, store.runs)
         IN  [raised |-> "none",
              metrics |-> [i \in 1..Len(kept) |-> kept[i].metrics],
              model_name |-> ModelName(kept)]

RECURSIVE ValuesOf(_, _)
\* The values stored under key k, in the order of the records.
ValuesOf(k, metrics) ==
    IF Len(metrics) = 0 THEN <<>>
    ELSE (IF k \in DOMAIN Head(metrics) THEN <<Head(metrics)[k]>> ELSE <<>>)
         \o ValuesOf(k, Tail(metrics))

\* Mutant of aggregate_metrics: an empty list gives an empty mapping instead
\* of the IndexError.
aggregate_metrics_EmptyOk(metrics) ==
    IF Len(metrics) = 0
    THEN [raised |-> "none", aggregated |-> <<>>]
    ELSE [raised |-> "none",
          aggregated |-> [k \in DOMAIN metrics[1] |-> ValuesOf(k, metrics)]]

\* Mutant of aggregate_metrics: a key the first record lacks gets a list of
\* its own (setdefault instead of get).
aggregate_metrics_AllKeys(metrics) ==
    IF Len(metrics) = 0
    THEN [raised |-> "IndexError"]
    ELSE [raised |-> "none",
          aggregated |-> [k \in UNION {DOMAIN metrics[i] : i \in 1..Len(metrics)} |->
                             ValuesOf(k, metrics)]]

\* aggregate_metrics: IndexError at metrics[0] when the list is empty; the
\* keys are those of the first record, a value under another key goes to a
\* throw-away list.
aggregate_metrics(metrics) ==
    IF Len(metrics) = 0
    THEN [raised |-> "IndexError"]
    ELSE [raised |-> "none",
          aggregated |-> [k \in DOMAIN metrics[1] |-> ValuesOf(k, metrics)]]

RECURSIVE Sum(_)
Sum(v) == IF Len(v) = 0 THEN 0 ELSE Head(v) + Sum(Tail(v))

RECURSIVE SumSq(_)
SumSq(v) == IF Len(v) = 0 THEN 0 ELSE Head(v) * Head(v) + SumSq(Tail(v))

\* np.mean(v) as the fraction <<numerator, denominator>>.
Mean(v) == <<Sum(v), Len(v)>>

\* Mutant of Var: the sample variance (ddof=1), divided by n - 1.
Var_Sample(v) == <<Len(v) * SumSq(v) - Sum(v) * Sum(v), Len(v) * (Len(v) - 1)>>

\* np.var(v), the population variance, as a fraction:
\* sum(x^2)/n - (sum(x)/n)^2 = (n*sum(x^2) - sum(x)^2) / n^2.
Var(v) == <<Len(v) * SumSq(v) - Sum(v) * Sum(v), Len(v) * Len(v)>>

Test == <<"t", "e", "s", "t">>
Suffix_mean == <<"_", "m", "e", "a", "n">>
Suffix_var == <<"_", "v", "a", "r">>
Suffix_av == <<"_", "a", "v">>

\* average_metrics lines 153-154 and 166-167: the logged metrics.
SummaryMetrics(agg) ==
    LET keys == {k \in DOMAIN agg : Contains(k, Test)}
        names == {k \o Suffix_mean : k \in keys} \cup {k \o Suffix_var : k \in keys}
    IN  [n \in names |->
            LET k == CHOOSE k \in keys : n \in {k \o Suffix_mean, k \o Suffix_var}
            IN  IF n = k \o Suffix_mean THEN Mean(agg[k]) ELSE Var(agg[k])]

\* average_metrics: what it raises, and the run it publishes (lines 159-167;
\* the starting_time parameter, a clock reading, is left out).
average_metrics(store, rn) ==
    LET lm == load_metrics(store, rn)
    IN  IF lm.raised # "none" THEN [raised |-> lm.raised]
        ELSE LET am == aggregate_metrics(lm.metrics)
             IN  IF am.raised # "none" THEN [raised |-> am.raised]
                 ELSE [raised |-> "none",
                       run |-> [origin |-> "summary",
                                params |-> ("run_name" :> (rn \o Suffix_av))
                                           @@ ("model.name" :> lm.model_name)
                                           @@ ("num_of_runs_to_average" :> Len(lm.metrics)),
                                metrics |-> SummaryMetrics(am.aggregated)]]

\* ------------------------------------------------------------------ state
VARIABLES
    dataset_type,     \* self.dataset_type
    run_name,         \* self.run_name
    bundle_size,      \* self.bundle_size
    main_pc,          \* where the main process is in submit()
    next_d,           \* submit_on_all_datasets: index of the next dataset to hand to the pool
    pc,               \* per dataset: where its submit_bundle is
    worker,           \* per dataset: the process running its submit_bundle (0: main, -1: none yet)
    handlers,         \* per process: the file handlers of the logger named 'leaderboard'
    b,                \* per dataset: submit_bundle's loop variable, the next bundle index
    started_jobs_id,  \* per dataset: submit_bundle's set of handles
    calls,            \* per dataset: the submit_job calls made so far, with what bsub did
    raised,           \* per dataset: the exception that left submit_bundle, "none" if none
    logged,           \* per dataset: the exception caught and logged at lines 70-71
    lastq,            \* per dataset: whether a tracked handle was active at its last bjobs query
    requery,          \* per dataset: a query was made after one that found no tracked handle active
    active,           \* the scheduler's active jobs, each [d, bundle_id]
    experiments,      \* the tracking service: per dataset, its experiment
    written,          \* per dataset: the log files its pipeline's messages went to
    locals            \* per dataset: what average_metrics loaded and aggregated

vars ==
    <<dataset_type, run_name, bundle_size, main_pc, next_d, pc, worker, handlers, b,
      started_jobs_id, calls, raised, logged, lastq, requery, active, experiments,
      written, locals>>

config == <<dataset_type, run_name, bundle_size>>

\* Mutant of Workers: a pool of one process.
Workers_One == 1..1

\* The pool's worker processes: Pool(len(self.leader_boards)).
Workers == 1..Len(leader_boards)

\* The identifiers bjobs lists.
ActiveIds == {JobId(j.d, j.bundle_id) : j \in active}

\* setup_logger line 137-138: the log file of a dataset.
LogFile(d) == Replace(Chars(d), "/", "_")

\* Mutant of LoopOrWait: the call of wait_jobs at line 65 is missing.
LoopOrWait_NoWait(i) == IF i < bundle_size THEN "submitting" ELSE "averaging"

\* Mutant of LoopOrWait: the loop ends one round early.
LoopOrWait_OneShort(i) == IF i + 1 < bundle_size THEN "submitting" ELSE "polling"

\* Where submit_bundle is once bundle index i is the next one: in the loop
\* while range(self.bundle_size) has it, in wait_jobs after that.
LoopOrWait(i) == IF i < bundle_size THEN "submitting" ELSE "polling"

\* A pipeline that has ended, by returning or by raising.
Ended(d) == pc[d] \in {"done", "raised"}

Running(d) == pc[d] \in {"submitting", "polling", "averaging"}

\* The files a list of file handlers writes to.
HandlerFiles(hs) == {hs[i] : i \in 1..Len(hs)}

\* logger.info in the pipeline of d: the record goes to every handler the
\* logger named 'leaderboard' has in the process that runs the pipeline.
LogInfo(d) == written' = [written EXCEPT ![d] = @ \cup HandlerFiles(handlers[worker[d]])]

\* average_metrics has not run.
NoLocals == [kept |-> <<>>, aggregated |-> <<>>, entered |-> FALSE]

\* average_metrics lines 149-151: the runs whose metrics load_metrics
\* appended, and the dictionary aggregate_metrics returned (empty when
\* either raised).
AverageLocals(store, rn) ==
    LET lm == load_metrics(store, rn)
        kept == IF lm.raised # "none" THEN <<>> ELSE KeptRuns(rn, store.runs)
        am == IF lm.raised # "none" THEN [raised |-> lm.raised] ELSE aggregate_metrics(lm.metrics)
    IN  [kept |-> kept,
         aggregated |-> IF am.raised # "none" THEN <<>> ELSE am.aggregated,
         entered |-> TRUE]

Init ==
    /\ dataset_type \in DatasetTypes
    /\ run_name \in RunNames
    /\ bundle_size \in 0..(IF dataset_type = "leaderboard" THEN DefaultBundleSize ELSE MaxBundle)
    /\ main_pc = "start"
    /\ next_d = 1
    /\ pc = [d \in Datasets |-> "idle"]
    /\ worker = [d \in Datasets |-> -1]
    /\ handlers = [w \in {0} \cup Workers |-> <<>>]
    /\ b = [d \in Datasets |-> 0]
    /\ started_jobs_id = [d \in Datasets |-> {}]
    /\ calls = [d \in Datasets |-> <<>>]
    /\ raised = [d \in Datasets |-> "none"]
    /\ logged = [d \in Datasets |-> "none"]
    /\ lastq = [d \in Datasets |-> "none"]
    /\ requery = [d \in Datasets |-> FALSE]
    /\ active = {}
    /\ \E pre \in PreStores : experiments = [d \in Datasets |-> pre]
    /\ written = [d \in Datasets |-> {}]
    /\ locals = [d \in Datasets |-> NoLocals]

\* submit_bundle lines 54-57 in process w: the logger gets one more file
\* handler, then the loop starts.
EnterBundle(d, w) ==
    /\ pc' = [pc EXCEPT ![d] = LoopOrWait(0)]
    /\ worker' = [worker EXCEPT ![d] = w]
    /\ handlers' = [handlers EXCEPT ![w] = Append(@, LogFile(d))]
    /\ written' = [written EXCEPT ![d] = @ \cup HandlerFiles(handlers'[w])]

\* submit(), else branch: submit_bundle(self.dataset_type) in the main process.
SubmitSingle ==
    /\ main_pc = "start"
    /\ dataset_type # "leaderboard"
    /\ main_pc' = "bundle"
    /\ EnterBundle(dataset_type, 0)
    /\ UNCHANGED <<config, next_d, b, started_jobs_id, calls, raised, logged, lastq,
                   requery, active, experiments, locals>>

\* submit(), then branch: submit_on_all_datasets creates the pool.
SubmitAll ==
    /\ main_pc = "start"
    /\ dataset_type = "leaderboard"
    /\ main_pc' = "dispatch"
    /\ UNCHANGED <<config, next_d, pc, worker, handlers, b, started_jobs_id, calls, raised,
                   logged, lastq, requery, active, experiments, written, locals>>

\* submit_on_all_datasets lines 46-50: one apply_async; after the last one
\* the pool is closed and joined.
ApplyAsync ==
    /\ main_pc = "dispatch"
    /\ next_d <= Len(leader_boards)
    /\ pc' = [pc EXCEPT ![leader_boards[next_d]] = "queued"]
    /\ next_d' = next_d + 1
    /\ main_pc' = IF next_d = Len(leader_boards) THEN "join" ELSE "dispatch"
    /\ UNCHANGED <<config, worker, handlers, b, started_jobs_id, calls, raised, logged,
                   lastq, requery, active, experiments, written, locals>>

\* A pool worker is idle when no pipeline is running in it.
Idle(w) == \A d \in Datasets : worker[d] = w => ~Running(d)

\* An idle pool worker takes the oldest task of the pool's queue.  Workers
\* that have run nothing yet are interchangeable: the lowest one is taken.
WorkerStart(w, d) ==
    /\ pc[d] = "queued"
    /\ \A i \in 1..Len(leader_boards) :
          pc[leader_boards[i]] = "queued" =>
             \E k \in 1..i : leader_boards[k] = d
    /\ Idle(w)
    /\ \/ handlers[w] # <<>>
       \/ \A v \in Workers : handlers[v] = <<>> => w <= v
    /\ EnterBundle(d, w)
    /\ UNCHANGED <<config, main_pc, next_d, b, started_jobs_id, calls, raised, logged,
                   lastq, requery, active, experiments, locals>>

\* Mutant of MainAfter: the exception of a pool worker's pipeline is raised
\* again in the main process, as if the AsyncResult were read.
MainAfter_Reraise(d, how) ==
    IF how = "raised" THEN "raised"
    ELSE IF worker[d] = 0 THEN "returned" ELSE main_pc

\* The main process after a pipeline that ran in it (worker 0) has ended;
\* a pool worker's pipeline leaves the main process where it is, its
\* exception stays in the AsyncResult nobody reads.
MainAfter(d, how) ==
    IF worker[d] = 0 THEN (IF how = "raised" THEN "raised" ELSE "returned") ELSE main_pc

\* Mutant of OnSubmitResult: the exception is swallowed and the loop goes on
\* with the next round.
OnSubmitResult_Swallow(r, i) == LoopOrWait(i + 1)

\* submit_bundle lines 60-62, where the round with bundle index i goes when
\* submit_job gave r: an exception is not caught and leaves submit_bundle.
OnSubmitResult(r, i) == IF r.raised # "none" THEN "raised" ELSE LoopOrWait(i + 1)

\* submit_bundle lines 60-62: one round of the loop, with `o` what bsub does.
SubmitJob(d) ==
    /\ pc[d] = "submitting"
    /\ \E o \in BsubOutcomes(JobId(d, b[d])) :
          LET r == submit_job(d, run_name, b[d], o)
          IN  /\ calls' = [calls EXCEPT ![d] =
                               Append(@, [bundle_id |-> b[d], kind |-> o.kind,
                                          outs |-> o.outs, result |-> r])]
              /\ active' = IF r.ran_bsub /\ o.queued
                           THEN active \cup {[d |-> d, bundle_id |-> b[d]]}
                           ELSE active
              /\ pc' = [pc EXCEPT ![d] = OnSubmitResult(r, b[d])]
              /\ main_pc' = IF pc'[d] = "raised" THEN MainAfter(d, "raised") ELSE main_pc
              /\ IF r.raised # "none"
                 THEN /\ raised' = [raised EXCEPT ![d] = r.raised]
                      /\ UNCHANGED <<b, started_jobs_id>>
                 ELSE /\ started_jobs_id' = [started_jobs_id EXCEPT ![d] = @ \cup {r.job_id}]
                      /\ b' = [b EXCEPT ![d] = @ + 1]
                      /\ UNCHANGED raised
    /\ LogInfo(d)
    /\ UNCHANGED <<config, next_d, worker, handlers, logged, lastq, requery, experiments,
                   locals>>

\* Mutant of Tracked: one handle set shared by all pipelines.
Tracked_Shared(d) == UNION {started_jobs_id[x] : x \in Datasets}

\* submit_bundle line 65: the handles wait_jobs is called with, the local
\* set of this call of submit_bundle.
Tracked(d) == started_jobs_id[d]

\* wait_jobs lines 116-130: one round of the loop, one bjobs query.
Poll(d) ==
    /\ pc[d] = "polling"
    /\ LET job_ids == ParseJobIds(StatusOut(ActiveIds))
           still_running_jobs == StillRunning(Tracked(d), job_ids)
       IN  pc' = [pc EXCEPT ![d] =
                     IF Finished(still_running_jobs) THEN "averaging" ELSE "polling"]
    /\ lastq' = [lastq EXCEPT ![d] =
                    IF started_jobs_id[d] \cap ActiveIds # {} THEN "overlap" ELSE "disjoint"]
    /\ requery' = [requery EXCEPT ![d] = @ \/ lastq[d] = "disjoint"]
    /\ LogInfo(d)
    /\ UNCHANGED <<config, main_pc, next_d, worker, handlers, b, started_jobs_id, calls,
                   raised, logged, active, experiments, locals>>

\* Mutant of CatchAndLog: the handler gives up on the whole dispatch, so
\* every pipeline that has not ended is stopped.
CatchAndLog_StopAll(pcs, d) ==
    [x \in DOMAIN pcs |->
        IF x = d THEN "done"
        ELSE IF pcs[x] \in {"queued", "submitting", "polling", "averaging"} THEN "raised"
        ELSE pcs[x]]

\* submit_bundle lines 68-71 when average_metrics raised exception e: it is
\* logged and submit_bundle returns.
CatchAndLog(pcs, d) == [pcs EXCEPT ![d] = "done"]

\* submit_bundle lines 67-71: average_metrics, its exception caught.
Average(d) ==
    /\ pc[d] = "averaging"
    /\ LET r == average_metrics(experiments[d], run_name)
       IN  IF r.raised # "none"
           THEN /\ logged' = [logged EXCEPT ![d] = r.raised]
                /\ pc' = CatchAndLog(pc, d)
                /\ UNCHANGED experiments
           ELSE /\ experiments' = [experiments EXCEPT ![d].runs = Append(@, r.run)]
                /\ pc' = [pc EXCEPT ![d] = "done"]
                /\ UNCHANGED logged
    /\ locals' = [locals EXCEPT ![d] = AverageLocals(experiments[d], run_name)]
    /\ main_pc' = MainAfter(d, "returned")
    /\ LogInfo(d)
    /\ UNCHANGED <<config, next_d, worker, handlers, b, started_jobs_id, calls, raised,
                   lastq, requery, active>>

\* The scheduler: an active job ends and leaves the active set; a job that
\* completed has logged its run, a job that failed has logged nothing.
JobEnd(j, completed) ==
    /\ j \in active
    /\ active' = active \ {j}
    /\ experiments' =
          IF completed
          THEN [experiments EXCEPT ![j.d] =
                   [exists |-> TRUE, runs |-> Append(@.runs, JobRun(run_name, j.bundle_id))]]
          ELSE experiments
    /\ UNCHANGED <<config, main_pc, next_d, pc, worker, handlers, b, started_jobs_id, calls,
                   raised, logged, lastq, requery, written, locals>>

\* submit_on_all_datasets line 50: pool.join() returns when every task has
\* ended.
PoolJoined ==
    /\ main_pc = "join"
    /\ \A i \in 1..Len(leader_boards) : Ended(leader_boards[i])
    /\ main_pc' = "returned"
    /\ UNCHANGED <<config, next_d, pc, worker, handlers, b, started_jobs_id, calls, raised,
                   logged, lastq, requery, active, experiments, written, locals>>

Next ==
    \/ SubmitSingle
    \/ SubmitAll
    \/ ApplyAsync
    \/ \E w \in Workers, d \in Datasets : WorkerStart(w, d)
    \/ \E d \in Datasets : SubmitJob(d)
    \/ \E d \in Datasets : Poll(d)
    \/ \E d \in Datasets : Average(d)
    \/ \E j \in active, completed \in BOOLEAN : JobEnd(j, completed)
    \/ PoolJoined

Spec == Init /\ [][Next]_vars

\* ------------------------------------------------ aggregation on its own
\* One single-dataset invocation with an empty bundle (--bundle_size 0), so
\* that submit_bundle goes through wait_jobs to average_metrics at once,
\* over an experiment that holds runs of earlier invocations.
AvgDataset == "tum"

K_latest == <<"l", "a", "t", "e", "s", "t">>
K_test_a_mean == K_test_a \o Suffix_mean
K_test_a_var == K_test_a \o Suffix_var

\* A run logged before the invocation.
PreRun(name, model, metrics) ==
    [origin |-> "pre",
     params |-> IF model = <<>> THEN ("run_name" :> name)
                ELSE ("run_name" :> name) @@ ("model.name" :> model),
     metrics |-> metrics]

\* Three bundle members of run_name 'exp1', with different key sets.
Exp1_b_0 ==
    PreRun(<<"e", "x", "p", "1", "_", "b", "_", "0">>, <<"n", "e", "t">>,
           (K_test_a :> 1) @@ (K_test_b :> 10) @@ (K_train_loss :> 5))
Exp1_b_1 ==
    PreRun(<<"e", "x", "p", "1", "_", "b", "_", "1">>, <<"n", "e", "t">>,
           (K_test_a :> 2) @@ (K_test_b :> 20))
Exp1_b_2 ==
    PreRun(<<"e", "x", "p", "1", "_", "b", "_", "2">>, <<>>,
           (K_test_a :> 3) @@ (K_test_b :> 30) @@ (K_latest :> 4))

\* A bundle member of run_name 'exp12'.
Exp12_b_0 ==
    PreRun(<<"e", "x", "p", "1", "2", "_", "b", "_", "0">>, <<"n", "e", "t">>,
           (K_test_a :> 8))

\* A run of run_name 'exp1' that is no bundle member: 'exp1_seed_3'.
Exp1_seed_3 ==
    PreRun(<<"e", "x", "p", "1", "_", "s", "e", "e", "d", "_", "3">>, <<"n", "e", "t">>,
           (K_test_a :> 4))

\* The summary an earlier invocation with run_name 'my_run' published.
My_run_av ==
    PreRun(<<"m", "y", "_", "r", "u", "n", "_", "a", "v">>, <<"n", "e", "t">>,
           (K_test_a_mean :> 2) @@ (K_test_a_var :> 0))

PreRuns == {Exp1_b_0, Exp1_b_1, Exp1_b_2, ForeignRun, Exp12_b_0, Exp1_seed_3, My_run_av}

\* The experiments tried: not there, or holding up to MaxRuns runs.
AvgStores ==
    {[exists |-> FALSE, runs |-> <<>>]}
    \cup {[exists |-> TRUE, runs |-> r] : r \in UNION {[1..n -> PreRuns] : n \in 0..MaxRuns}}

\* The values of --run_name tried.
AvgRunNames == {<<"e", "x", "p", "1">>, <<"e", "x", "p">>, <<"m", "y">>}

InitAvg ==
    /\ dataset_type = AvgDataset
    /\ run_name \in AvgRunNames
    /\ bundle_size = 0
    /\ main_pc = "start"
    /\ next_d = 1
    /\ pc = [d \in Datasets |-> "idle"]
    /\ worker = [d \in Datasets |-> -1]
    /\ handlers = [w \in {0} \cup Workers |-> <<>>]
    /\ b = [d \in Datasets |-> 0]
    /\ started_jobs_id = [d \in Datasets |-> {}]
    /\ calls = [d \in Datasets |-> <<>>]
    /\ raised = [d \in Datasets |-> "none"]
    /\ logged = [d \in Datasets |-> "none"]
    /\ lastq = [d \in Datasets |-> "none"]
    /\ requery = [d \in Datasets |-> FALSE]
    /\ active = {}
    /\ \E store \in AvgStores : experiments = [d \in Datasets |-> store]
    /\ written = [d \in Datasets |-> {}]
    /\ locals = [d \in Datasets |-> NoLocals]

NextAvg ==
    \/ SubmitSingle
    \/ Poll(AvgDataset)
    \/ Average(AvgDataset)

SpecAvg == InitAvg /\ [][NextAvg]_vars

\* ----------------------------------------------------------------- claims
\* The handles the scheduler really gave to the jobs it queued for d.
QueuedIds(d) == {JobId(d, c.bundle_id) : c \in {x \in {calls[d][i] : i \in 1..Len(calls[d])} : x.kind = "ack"}}

\* The summary runs average_metrics has published for d.
Summaries(d) ==
    {i \in 1..Len(experiments[d].runs) : experiments[d].runs[i].origin = "summary"}

\* C1: the poll loop never terminates after a query at which a tracked
\* handle was in the scheduler's active set: after such a query the
\* pipeline is still in wait_jobs, and a pipeline that has left wait_jobs
\* (aggregating, or done, or with a caught aggregation error or a summary)
\* made its last query when no tracked handle was active.
C1_NoExitWhileActive ==
    \A d \in Datasets :
        /\ lastq[d] = "overlap" => pc[d] = "polling"
        /\ (pc[d] \in {"averaging", "done"} \/ logged[d] # "none" \/ Summaries(d) # {})
              => lastq[d] = "disjoint"

\* C1 witness: a pipeline whose last query listed one of its handles, and
\* which is still polling.
C1_Witness ==
    \E d \in Datasets :
        /\ lastq[d] = "overlap"
        /\ pc[d] = "polling"
        /\ started_jobs_id[d] \cap ActiveIds # {}

\* C2: the poll loop terminates at the first query at which no tracked
\* handle is in the active set: after such a query the pipeline is out of
\* wait_jobs, and no query was ever made after such a query.
C2_ExitAtFirstClearQuery ==
    \A d \in Datasets :
        /\ lastq[d] = "disjoint" => pc[d] \in {"averaging", "done"}
        /\ ~requery[d]

\* C2 witness: a pipeline that tracked a queued job and left wait_jobs at a
\* query made after that job had ended.
C2_Witness ==
    \E d \in Datasets :
        /\ lastq[d] = "disjoint"
        /\ pc[d] = "averaging"
        /\ started_jobs_id[d] \cap QueuedIds(d) # {}

\* Every submit_job call of d got the promised output from bsub, and no two
\* got the same output.
AllSubmissionsSucceeded(d) ==
    /\ \A i \in 1..Len(calls[d]) :
          calls[d][i].kind # "timeout" /\ WellFormed(calls[d][i].outs)
    /\ \A i, k \in 1..Len(calls[d]) : i # k => calls[d][i].outs # calls[d][k].outs

\* C3: a bundle of size N whose submissions all succeeded, with distinct
\* scheduler responses, leaves submit_bundle's loop with exactly N handles,
\* each the return value of exactly one of the N submit_job calls, and each
\* the identifier the scheduler gave to that call's job.
C3_BundleYieldsNHandles ==
    \A d \in Datasets :
        (pc[d] \in {"polling", "averaging", "done"} /\ AllSubmissionsSucceeded(d)) =>
            /\ Len(calls[d]) = bundle_size
            /\ Cardinality(started_jobs_id[d]) = bundle_size
            /\ \A h \in started_jobs_id[d] :
                  Cardinality({i \in 1..Len(calls[d]) :
                                  /\ calls[d][i].result.raised = "none"
                                  /\ calls[d][i].result.job_id = h
                                  /\ h = JobId(d, calls[d][i].bundle_id)}) = 1

\* C3 witness: a bundle of two jobs, both acknowledged, now being polled
\* with two handles.
C3_Witness ==
    \E d \in Datasets :
        /\ pc[d] = "polling"
        /\ bundle_size = 2
        /\ AllSubmissionsSucceeded(d)
        /\ Cardinality(started_jobs_id[d]) = 2

\* The state of d's pipeline.
Pipeline(d) ==
    <<pc[d], worker[d], b[d], started_jobs_id[d], calls[d], raised[d], logged[d],
      lastq[d], requery[d], experiments[d]>>

\* C4: an aggregation failure of one dataset leaves the pipelines of the
\* other datasets alone.  The step in which average_metrics raises for d1
\* changes nothing of any sibling d2; no pipeline is ever stopped without
\* an exception of its own; and while d1's failure is on record a sibling
\* that has returned without an aggregation error of its own has published
\* its summary.
C4_Inv ==
    /\ \A d \in Datasets : pc[d] = "raised" => raised[d] # "none"
    /\ \A d1, d2 \in Datasets :
          (d1 # d2 /\ logged[d1] # "none") =>
              /\ pc[d2] \in {"polling", "averaging"} => raised[d2] = "none"
              /\ (pc[d2] = "done" /\ logged[d2] = "none") => Summaries(d2) # {}

C4_Step ==
    \A d1, d2 \in Datasets :
        (d1 # d2 /\ logged[d1]' # logged[d1]) => Pipeline(d2)' = Pipeline(d2)

\* C4: one dataset's aggregation failure does not keep a sibling dataset
\* from producing its summary: C4_Inv holds in every state and every step
\* in which average_metrics raises for one dataset leaves the pipelines of
\* all other datasets unchanged (C4_Step).
C4_AggregationFailureIsolated == []C4_Inv /\ [][C4_Step]_vars

\* C4 witness: multi-dataset dispatch in which one dataset's aggregation
\* has failed and a sibling has published its summary.
C4_Witness ==
    /\ dataset_type = "leaderboard"
    /\ \E d1, d2 \in Datasets :
          /\ d1 # d2
          /\ logged[d1] # "none"
          /\ pc[d2] = "done"
          /\ Summaries(d2) # {}

\* The run family of d as the tracking service holds it now.
Family(d) == KeptRuns(run_name, experiments[d].runs)

\* C5: average_metrics on an empty run family fails before it publishes
\* anything: the step that ends the aggregation of a dataset whose family is
\* empty records an exception and leaves the experiment as it was; and no
\* published summary holds a statistic over an empty sequence (a fraction
\* with denominator 0) or counts zero runs.
C5_SummarySound ==
    \A d \in Datasets : \A i \in Summaries(d) :
        LET run == experiments[d].runs[i]
        IN  /\ run.params["num_of_runs_to_average"] > 0
            /\ \A k \in DOMAIN run.metrics : run.metrics[k][2] > 0

C5_Step ==
    \A d \in Datasets :
        (pc[d] = "averaging" /\ pc[d]' = "done" /\ Len(Family(d)) = 0) =>
            /\ logged[d]' # "none"
            /\ experiments[d]' = experiments[d]

\* C5: aggregating zero matching runs fails with an error before a summary
\* run is created and before any statistic is computed: C5_SummarySound
\* holds in every state and C5_Step in every step.
C5_EmptyFamilyFails == []C5_SummarySound /\ [][C5_Step]_vars

\* C5 witness: the experiment exists, no run of it belongs to the family,
\* and the aggregation has ended with the IndexError of metrics[0] and no
\* summary.
C5_Witness ==
    \E d \in Datasets :
        /\ pc[d] = "done"
        /\ experiments[d].exists
        /\ Len(Family(d)) = 0
        /\ logged[d] = "IndexError"
        /\ Summaries(d) = {}

\* The dataset types command construction is configured for.
Configured == {"discoman_v10", "discoman_debug", "kitti_4/6", "tum", "tum_debug"}

\* C6: for a dataset type outside the configured set bsub is never run and
\* no job is ever queued; the first submit_job call for it raises the
\* RuntimeError of get_lsf_command, which ends the pipeline before it has
\* made any external call (no bsub, no bjobs query, no aggregation).
C6_UnknownDatasetFailsFast ==
    \A d \in Datasets \ Configured :
        /\ \A i \in 1..Len(calls[d]) : ~calls[d][i].result.ran_bsub
        /\ \A j \in active : j.d # d
        /\ Len(calls[d]) > 0 =>
              /\ Len(calls[d]) = 1
              /\ pc[d] = "raised"
              /\ raised[d] = "RuntimeError"
              /\ lastq[d] = "none"
              /\ logged[d] = "none"
              /\ Summaries(d) = {}

\* C6 witness: submit_job was called for the unknown dataset type and the
\* pipeline has raised.
C6_Witness ==
    \E d \in Datasets \ Configured :
        /\ Len(calls[d]) = 1
        /\ pc[d] = "raised"
        /\ raised[d] = "RuntimeError"

\* C7: every submit_job call that ran bsub raised TimeoutExpired when bsub
\* did not answer in time, raised the parse error when the output did not
\* have the promised layout, and returned a handle only from output of that
\* layout.
C7_ParseFailsOnDeviation ==
    \A d \in Datasets : \A i \in 1..Len(calls[d]) :
        LET c == calls[d][i]
        IN  c.result.ran_bsub =>
              /\ c.kind = "timeout" => c.result.raised = "TimeoutExpired"
              /\ (c.kind # "timeout" /\ ~WellFormed(c.outs)) => c.result.raised = "IndexError"
              /\ c.result.raised = "none" => WellFormed(c.outs)

\* C8: a submit_job call that raised a timeout or parse error is the last
\* call of its pipeline, with bundle indices 0, 1, ... never repeated (no
\* retry); the exception has left submit_bundle, which made no status query
\* and no aggregation; and the step in which it raised cancelled no job:
\* every job active before it is active after it.
C8_Inv ==
    \A d \in Datasets :
        /\ \A i \in 1..Len(calls[d]) :
              /\ calls[d][i].bundle_id = i - 1
              /\ calls[d][i].result.raised # "none" => i = Len(calls[d])
        /\ raised[d] \in {"TimeoutExpired", "IndexError"} =>
              /\ pc[d] = "raised"
              /\ calls[d][Len(calls[d])].result.raised = raised[d]
              /\ Len(calls[d]) = b[d] + 1
              /\ lastq[d] = "none"
              /\ logged[d] = "none"
              /\ Summaries(d) = {}

C8_Step ==
    \A d \in Datasets :
        raised[d]' # raised[d] =>
            /\ active \subseteq active'
            /\ \A j \in active' \ active : j = [d |-> d, bundle_id |-> b[d]]

\* C8: a submission failure of the k-th job is not retried, aborts the
\* dataset's bundle before any query or aggregation, and cancels none of
\* the jobs already queued: C8_Inv holds in every state and C8_Step in
\* every step.
C8_SubmissionFailureAborts == []C8_Inv /\ [][C8_Step]_vars

\* C8 witness: the second job of a bundle failed to submit while the first
\* one is still queued in the scheduler.
C8_Witness ==
    \E d \in Datasets :
        /\ raised[d] \in {"TimeoutExpired", "IndexError"}
        /\ Len(calls[d]) = 2
        /\ [d |-> d, bundle_id |-> 0] \in active

\* C9: a pipeline publishes at most one summary run, and only when its
\* polling loop has terminated: a summary of d exists only if d's last
\* query found no tracked handle active and submit_bundle has returned.
C9_AtMostOneSummary ==
    \A d \in Datasets :
        /\ Cardinality(Summaries(d)) <= 1
        /\ Summaries(d) # {} =>
              /\ pc[d] = "done"
              /\ lastq[d] = "disjoint"
              /\ experiments[d].runs[CHOOSE i \in Summaries(d) : TRUE].params["run_name"]
                    = run_name \o Suffix_av

\* C9 witness: a pipeline that has published its summary.
C9_Witness ==
    \E d \in Datasets :
        /\ Cardinality(Summaries(d)) = 1
        /\ pc[d] = "done"
        /\ started_jobs_id[d] # {}

\* C10: the stages of a pipeline come in the order Submitting, Polling,
\* Done.  Its submit_job calls carry bundle indices 0, 1, ... in order; a
\* status query has been made only if all bundle_size calls have returned a
\* handle; aggregation has started only if the last query ended the loop;
\* every step moves the pipeline along that order; and a pipeline that has
\* returned has run the aggregation (it logged its exception or published
\* the summary), whatever became of its jobs.
C10_Inv ==
    \A d \in Datasets :
        /\ \A i \in 1..Len(calls[d]) : calls[d][i].bundle_id = i - 1
        /\ pc[d] = "submitting" => b[d] < bundle_size
        /\ (lastq[d] # "none" \/ pc[d] \in {"polling", "averaging", "done"}) =>
              /\ b[d] = bundle_size
              /\ Len(calls[d]) = b[d]
              /\ \A i \in 1..Len(calls[d]) : calls[d][i].result.raised = "none"
        /\ (pc[d] \in {"averaging", "done"} \/ logged[d] # "none" \/ Summaries(d) # {})
              => lastq[d] = "disjoint"
        /\ pc[d] = "done" => (logged[d] # "none" \/ Summaries(d) # {})

C10_Step ==
    \A d \in Datasets :
        pc[d]' # pc[d] =>
            \/ pc[d] \in {"idle", "queued"} /\ pc[d]' \in {"queued", "submitting", "polling"}
            \/ pc[d] = "submitting" /\ pc[d]' \in {"polling", "raised"}
            \/ pc[d] = "polling" /\ pc[d]' = "averaging"
            \/ pc[d] = "averaging" /\ pc[d]' = "done"

\* C10: every pipeline goes Submitting, Polling, Done in that order, and
\* aggregates once polling has ended whatever became of its jobs: C10_Inv
\* holds in every state and C10_Step in every step.
C10_StagesInOrder == []C10_Inv /\ [][C10_Step]_vars

\* C10 witness: a bundle of two acknowledged jobs that both ended without
\* logging a run; the pipeline polled, aggregated all the same and has
\* returned with the aggregation error logged.
C10_Witness ==
    \E d \in Datasets :
        /\ pc[d] = "done"
        /\ bundle_size = 2
        /\ Cardinality(QueuedIds(d)) = 2
        /\ logged[d] # "none"

\* The keys of the runs tried whose name contains 'test'.
TestKeys == {K_test_a, K_test_b, K_latest, K_test_a_mean, K_test_a_var}

\* v[1] + ... + v[Len(v)].
Total(v) ==
    LET f[i \in 0..Len(v)] == IF i = 0 THEN 0 ELSE f[i - 1] + v[i]
    IN  f[Len(v)]

\* The sum of the squared deviations of Len(v) * v[i] from Total(v), that is
\* Len(v)^2 times the sum of the squared deviations from the mean.
SqDev(v) ==
    LET f[i \in 0..Len(v)] ==
            IF i = 0 THEN 0
            ELSE f[i - 1] + (Len(v) * v[i] - Total(v)) * (Len(v) * v[i] - Total(v))
    IN  f[Len(v)]

\* The fraction f is the arithmetic mean of v.
IsMean(f, v) == f[2] # 0 /\ f[1] * Len(v) = f[2] * Total(v)

\* The fraction f is the population variance of v: the mean of the squared
\* deviations from the mean.
IsVar(f, v) == f[2] # 0 /\ f[1] * Len(v) * Len(v) * Len(v) = f[2] * SqDev(v)

\* The fraction f is the number p/q.
IsNumber(f, p, q) == f[2] # 0 /\ f[1] * q = f[2] * p

\* C11: a published summary holds, for every aggregated key whose name
\* contains 'test', exactly one metric <key>_mean, the arithmetic mean of
\* the values gathered under the key, and one metric <key>_var, their
\* population variance, and no metric for any other key; for the gathered
\* values test_a = 1, 2, 3 and test_b = 10, 20, 30 these are 2, 2/3, 20 and
\* 200/3, and train_loss has no metric.
C11_SummaryMetrics ==
    \A d \in Datasets : \A i \in Summaries(d) :
        LET m == experiments[d].runs[i].metrics
            agg == locals[d].aggregated
            keys == DOMAIN agg \cap TestKeys
        IN  /\ DOMAIN m = {k \o Suffix_mean : k \in keys} \cup {k \o Suffix_var : k \in keys}
            /\ Cardinality(DOMAIN m) = 2 * Cardinality(keys)
            /\ \A k \in keys :
                  /\ IsMean(m[k \o Suffix_mean], agg[k])
                  /\ IsVar(m[k \o Suffix_var], agg[k])
            /\ \A k \in DOMAIN agg \ TestKeys :
                  {k \o Suffix_mean, k \o Suffix_var} \cap DOMAIN m = {}
            /\ (/\ {K_test_a, K_test_b} \subseteq DOMAIN agg
                /\ agg[K_test_a] = <<1, 2, 3>>
                /\ agg[K_test_b] = <<10, 20, 30>>)
               => /\ IsNumber(m[K_test_a \o Suffix_mean], 2, 1)
                  /\ IsNumber(m[K_test_a \o Suffix_var], 2, 3)
                  /\ IsNumber(m[K_test_b \o Suffix_mean], 20, 1)
                  /\ IsNumber(m[K_test_b \o Suffix_var], 200, 3)

\* The summary of the records (1, 10), (2, 20), (3, 30), the first of which
\* has a train_loss too, has been published.
C11_Witness ==
    \E d \in Datasets :
        /\ pc[d] = "done"
        /\ Summaries(d) # {}
        /\ DOMAIN locals[d].aggregated = {K_test_a, K_test_b, K_train_loss}
        /\ locals[d].aggregated[K_test_a] = <<1, 2, 3>>
        /\ locals[d].aggregated[K_test_b] = <<10, 20, 30>>

\* The runs of d's experiment that the jobs of this invocation logged.
JobRuns(d) ==
    {i \in 1..Len(experiments[d].runs) : experiments[d].runs[i].origin = "job"}

\* The elements of a sequence.
Range(q) == {q[i] : i \in 1..Len(q)}

\* C12: the base-name extraction inverts submit_job's naming: for the
\* configured run_name r, with or without underscores, and every bundle
\* index i, those submit_job was called with and the one- and two-digit
\* indices of a larger bundle, the base name of r + '_b_' + i is r, so
\* every run a job of the bundle logged is in the family of r and
\* is among the runs the aggregation of the bundle kept.
C12_BaseInvertsNaming ==
    /\ \A i \in {0, bundle_size, bundle_size + 9, bundle_size + 10} :
          BaseRunName(JobRunName(run_name, i)) = run_name
    /\ \A d \in Datasets :
          /\ \A k \in 1..Len(calls[d]) :
                BaseRunName(JobRunName(run_name, calls[d][k].bundle_id)) = run_name
          /\ \A i \in JobRuns(d) :
                /\ InFamily(run_name, experiments[d].runs[i])
                /\ pc[d] = "done" => experiments[d].runs[i] \in Range(locals[d].kept)

\* A bundle of two jobs under a run_name with an underscore has logged both
\* runs and has been aggregated.
C12_Witness ==
    \E d \in Datasets :
        /\ pc[d] = "done"
        /\ "_" \in Range(run_name)
        /\ Cardinality(JobRuns(d)) = 2
        /\ Len(locals[d].kept) = 2

\* The runs d's experiment held when average_metrics loaded it: all but
\* the summary published since.
LoadedRuns(d) ==
    {experiments[d].runs[i] : i \in 1..Len(experiments[d].runs) \ Summaries(d)}

\* The recorded run_name of a run.
Recorded(run) == run.params["run_name"]

\* The positions of the underscores of a name.
Underscores(name) == {i \in 1..Len(name) : name[i] = "_"}

\* The name up to its last but one underscore: what is left when the last
\* two '_'-separated tokens go; empty when the name has fewer than three.
CutBase(name) ==
    IF Cardinality(Underscores(name)) < 2 THEN <<>>
    ELSE LET last == CHOOSE i \in Underscores(name) : \A j \in Underscores(name) : j <= i
             cut == CHOOSE i \in Underscores(name) \ {last} :
                        \A j \in Underscores(name) \ {last} : j <= i
         IN  SubSeq(name, 1, cut - 1)

\* x is a proper prefix of y.
ProperPrefix(x, y) == Len(x) < Len(y) /\ SubSeq(y, 1, Len(x)) = x

\* C13: load_metrics keeps a run only if its base name is equal to
\* self.run_name, not if it merely starts with it or is a prefix of it: of
\* the runs the experiment held, the kept ones are those whose recorded
\* run_name without its last two tokens is the configured run_name, and a
\* run whose base name is a proper prefix of the run_name, or has it as a
\* proper prefix, is not kept.
C13_ExactBaseName ==
    \A d \in Datasets :
        locals[d].entered /\ experiments[d].exists =>
            \A run \in LoadedRuns(d) :
                /\ run \in Range(locals[d].kept) <=> CutBase(Recorded(run)) = run_name
                /\ \/ ProperPrefix(CutBase(Recorded(run)), run_name)
                   \/ ProperPrefix(run_name, CutBase(Recorded(run)))
                   => run \notin Range(locals[d].kept)

\* Under run_name 'exp1' the experiment held runs of 'exp', 'exp1' and
\* 'exp12', and the aggregation kept the one of 'exp1'.
C13_Witness ==
    \E d \in Datasets :
        /\ pc[d] = "done"
        /\ {ForeignRun, Exp1_b_0, Exp12_b_0} \subseteq LoadedRuns(d)
        /\ Range(locals[d].kept) = {Exp1_b_0}

Digits == {"0", "1", "2", "3", "4", "5", "6", "7", "8", "9"}

\* The name is rn followed by '_b_' and a decimal index.
IsBundleName(name, rn) ==
    /\ Len(name) > Len(rn) + 3
    /\ SubSeq(name, 1, Len(rn) + 3) = rn \o <<"_", "b", "_">>
    /\ \A i \in (Len(rn) + 4)..Len(name) : name[i] \in Digits

\* C14: a run is kept only if its recorded run_name is the configured
\* run_name followed by '_b_<index>'; a run whose recorded run_name does not
\* end in '_b_<index>', such as one with other trailing tokens or a summary
\* published as '<name>_av', is not kept whatever the configured run_name.
C14_OnlyBundleMembersKept ==
    \A d \in Datasets :
        \A run \in Range(locals[d].kept) : IsBundleName(Recorded(run), run_name)

\* The kept records that have key k.
Having(d, k) == {i \in 1..Len(locals[d].kept) : k \in DOMAIN locals[d].kept[i].metrics}

\* The j-th of the kept records that have key k.
NthHaving(d, k, j) ==
    CHOOSE i \in Having(d, k) : Cardinality({x \in Having(d, k) : x <= i}) = j

\* C15: aggregate_metrics uses the key set of the first kept record: the
\* result has exactly these keys, each mapped to the values stored under it
\* by the records that have it, in the order of the records; a value under
\* a key the first record lacks is dropped and raises nothing, the summary
\* is published all the same.
C15_FirstRecordKeys ==
    \A d \in Datasets :
        locals[d].entered /\ Len(locals[d].kept) > 0 =>
            LET kept == locals[d].kept
                agg == locals[d].aggregated
            IN  /\ DOMAIN agg = DOMAIN kept[1].metrics
                /\ \A k \in DOMAIN agg :
                      /\ Len(agg[k]) = Cardinality(Having(d, k))
                      /\ \A j \in 1..Len(agg[k]) :
                            agg[k][j] = kept[NthHaving(d, k, j)].metrics[k]
                /\ logged[d] = "none"
                /\ Summaries(d) # {}

\* The first kept record has no key 'latest' and no 'train_loss', later kept
\* ones have them; the summary has been published.
C15_Witness ==
    \E d \in Datasets :
        /\ pc[d] = "done"
        /\ Len(locals[d].kept) = 3
        /\ locals[d].kept[1] = Exp1_b_1
        /\ {Exp1_b_0, Exp1_b_2} \subseteq Range(locals[d].kept)
        /\ DOMAIN locals[d].aggregated = {K_test_a, K_test_b}
        /\ Summaries(d) # {}

\* The datasets of self.leader_boards.
Board == {leader_boards[i] : i \in 1..Len(leader_boards)}

\* How many times submit_bundle has been entered for d, in any process: each
\* entry added one handler for d's log file.
StartCount(d) ==
    LET file == LogFile(d)
        hs == {w \in DOMAIN handlers : handlers[w] # <<>>}
    IN  Cardinality({x \in hs \X (1..Cardinality(Datasets)) :
                        x[2] <= Len(handlers[x[1]]) /\ handlers[x[1]][x[2]] = file})

\* C16: submit starts exactly one pipeline per dataset of leader_boards in
\* multi-dataset mode and exactly one, in the main process and waiting for
\* it, in single-dataset mode; in multi-dataset mode there is one pool
\* worker per dataset, each running one pipeline at a time, so that every
\* queued pipeline has an idle worker to start in and none waits for a
\* sibling to end; submit has returned only when every started pipeline has
\* ended.
C16_OnePipelinePerDataset ==
    /\ \A d \in Datasets :
          StartCount(d) = IF pc[d] \in {"idle", "queued"} THEN 0 ELSE 1
    /\ dataset_type = "leaderboard" =>
          /\ \A d \in Datasets :
                pc[d] # "idle" => d \in Board /\ (pc[d] # "queued" => worker[d] \in Workers)
          /\ Cardinality(Workers) = Cardinality(Board)
          /\ \A d1, d2 \in Board :
                Running(d1) /\ Running(d2) /\ d1 # d2 => worker[d1] # worker[d2]
          /\ Cardinality({w \in Workers : Idle(w)})
                >= Cardinality({d \in Board : pc[d] = "queued"})
          /\ main_pc \in {"join", "returned"} => \A d \in Board : pc[d] # "idle"
          /\ main_pc = "returned" => \A d \in Board : Ended(d)
          /\ main_pc # "raised"
    /\ dataset_type # "leaderboard" =>
          /\ \A d \in Datasets : pc[d] # "idle" => d = dataset_type /\ worker[d] = 0
          /\ \A d \in Datasets : Running(d) => main_pc = "bundle"
          /\ main_pc \in {"returned", "raised"} => Ended(dataset_type)

\* The three pipelines of multi-dataset mode are running at the same time,
\* each in a worker of its own.
C16_Witness ==
    /\ dataset_type = "leaderboard"
    /\ \A d \in Board : Running(d)
    /\ Cardinality({worker[d] : d \in Board}) = Cardinality(Board)

\* What the pipeline of d owns: its position, its loop variable, its handle
\* set, and what is recorded of its calls, exceptions, queries and
\* aggregation.
Own(d) ==
    <<pc[d], worker[d], b[d], started_jobs_id[d], calls[d], raised[d], logged[d],
      lastq[d], requery[d], locals[d]>>

\* The active jobs that were queued for d.
ActiveOf(d) == {JobId(j.d, j.bundle_id) : j \in {x \in active : x.d = d}}

C17_Inv ==
    dataset_type = "leaderboard" =>
        \A d \in Board :
            /\ started_jobs_id[d] \cap ActiveIds \subseteq ActiveOf(d)
            /\ lastq[d] = "disjoint" => pc[d] \in {"averaging", "done"} /\ ~requery[d]
            /\ pc[d] = "polling" /\ ActiveOf(d) = {} =>
                  Finished(StillRunning(Tracked(d), ParseJobIds(StatusOut(ActiveIds))))

C17_Step ==
    \A d1, d2 \in Datasets :
        d1 # d2 /\ Own(d1)' # Own(d1) => Own(d2)' = Own(d2)

\* C17: in multi-dataset dispatch each pipeline owns its handle set and no
\* step of one pipeline changes what another one owns; the active handles
\* among a pipeline's own are those of its own jobs, its polling loop ends
\* at its first query at which none of them is active, whatever handles of
\* siblings are active then, and a query made while only siblings' jobs
\* are active ends the loop, so that a sibling that stays in polling does
\* not keep the pipeline from aggregating and ending.
C17_OwnHandlesOnly == []C17_Inv /\ [][C17_Step]_vars

\* A pipeline has published its summary and ended while a sibling is still
\* polling on a job of its own that is active.
C17_Witness ==
    /\ dataset_type = "leaderboard"
    /\ \E d1, d2 \in Board :
          /\ pc[d1] = "done"
          /\ Summaries(d1) # {}
          /\ started_jobs_id[d1] # {}
          /\ pc[d2] = "polling"
          /\ lastq[d2] = "overlap"
          /\ ActiveOf(d2) # {}

\* A status output without its final newline.
Unterminated(outs) ==
    IF Len(outs) > 0 /\ outs[Len(outs)] = "\n" THEN SubSeq(outs, 1, Len(outs) - 1) ELSE outs

\* The identifier on the last line of bjobs' output.
LastListed == LET ids == SetToSeq(ActiveIds) IN ids[Len(ids)]

\* C18 as stated: the parsed active set contains the first token of every
\* line after the header, for the status output of the active jobs whether
\* or not it ends with a newline.
C18_EveryListedHandleParsed ==
    \A outs \in {StatusOut(ActiveIds), Unterminated(StatusOut(ActiveIds))} :
        ActiveIds \subseteq ParseJobIds(outs)

\* C18, amended: for a status output whose lines all end with a newline the
\* parsed active set is the set of first tokens of the lines after the
\* header, so a tracked handle that is listed is never taken as finished;
\* when the last line has no newline, that line is left out and the parsed
\* set is the first tokens of the other lines.
C18_ListedHandlesParsedWhenTerminated ==
    /\ ParseJobIds(StatusOut(ActiveIds)) = ActiveIds
    /\ ActiveIds # {} =>
          ParseJobIds(Unterminated(StatusOut(ActiveIds))) = ActiveIds \ {LastListed}
    /\ \A d \in Datasets :
          pc[d] = "polling" =>
              StillRunning(Tracked(d), ParseJobIds(StatusOut(ActiveIds)))
                  = started_jobs_id[d] \cap ActiveIds

\* Two jobs are listed and a pipeline that tracks one of them has just
\* queried and stays in the loop.
C18_Witness ==
    /\ Cardinality(ActiveIds) >= 2
    /\ \E d \in Datasets :
          /\ pc[d] = "polling"
          /\ lastq[d] = "overlap"
          /\ started_jobs_id[d] \cap ActiveIds # {}

\* C19: each pipeline writes to its own log destination: whatever
\* submit_bundle calls a process has run, one after the other, every log
\* message of a dataset's pipeline goes to the log file of that dataset
\* and to no other dataset's log file.
C19_OwnLogFileOnly ==
    \A d \in Datasets : written[d] \subseteq {LogFile(d)}

\* The exceptions a submission can end with.
SubmissionFailures == {"TimeoutExpired", "IndexError", "RuntimeError"}

C20_Inv ==
    dataset_type = "leaderboard" =>
        /\ main_pc # "raised"
        /\ \A d \in Board :
              /\ raised[d] # "none" => raised[d] \in SubmissionFailures /\ pc[d] = "raised"
              /\ pc[d] = "raised" => raised[d] # "none"
        /\ main_pc = "returned" =>
              \A d \in Board :
                  raised[d] = "none" =>
                      /\ pc[d] = "done"
                      /\ lastq[d] = "disjoint"
                      /\ locals[d].entered
                      /\ Summaries(d) # {} \/ logged[d] # "none"

C20_Step ==
    dataset_type = "leaderboard" =>
        \A d1 \in Board :
            raised[d1] = "none" /\ raised'[d1] # "none" =>
                /\ main_pc' = main_pc
                /\ \A d2 \in Board \ {d1} : Own(d2)' = Own(d2)

\* C20: in multi-dataset dispatch a submission failure of one pipeline
\* ends that pipeline only: the step in which it fails changes nothing the
\* siblings own and leaves the main process where it is, the main
\* process never gets the exception, and when submit_on_all_datasets has
\* returned every pipeline that did not fail has polled, aggregated and
\* ended.
C20_SubmissionFailureStaysLocal == []C20_Inv /\ [][C20_Step]_vars

\* submit_on_all_datasets has returned; one pipeline failed at its
\* submission, a sibling submitted a job, polled and published its summary.
C20_Witness ==
    /\ dataset_type = "leaderboard"
    /\ main_pc = "returned"
    /\ \E d1, d2 \in Board :
          /\ raised[d1] \in SubmissionFailures
          /\ pc[d2] = "done"
          /\ started_jobs_id[d2] # {}
          /\ Summaries(d2) # {}

====
